---- MODULE Spec2Model ----
(***************************************************************************)
(* Notes-processing pipeline of the transcription app                      *)
(* (transcription-app/src/components/NotesProcessor.tsx) and its audio     *)
(* pipeline (the FileUpload component, src/unnamed/part_000).              *)
(*                                                                         *)
(* JavaScript runs every task to completion between two awaits, so each    *)
(* action below is the synchronous code from one suspension point (an      *)
(* external call, a timed wait) to the next.  Texts are represented by     *)
(* their length in characters, which is all that estimateTokens and the    *)
(* budget tests read; an array index k of the code is position k + 1 of    *)
(* the sequence that models the array.                                     *)
(***************************************************************************)
EXTENDS Integers, Sequences, FiniteSets, TLC

VARIABLES
    \* ---- component props and state (NotesProcessor.tsx 21-31)
    apiKey,              \* TRUE when a key was entered
    isLoading,
    error,
    pc,                  \* position of processNotes
    delivered,           \* documents handed to onProcessedNotes, in order
    \* ---- processChunksInParallel (118-172)
    chunks,              \* lengths of the chunks
    concurrencyLimit,
    results,
    currentIndex,
    activePromises,
    currentMinuteTokens,
    wpc,                 \* position of each worker task (chain of processNextChunk)
    widx,                \* the worker's local `index`
    chunkError,          \* per chunk, message of the error its request ended with
    checkedAt,           \* value of currentMinuteTokens the worker's budget test read
    issued,              \* per chunk, number of requests sent to the external model
    completionOrder,     \* chunk indexes in the order their requests returned
    \* ---- reducer locals of processNotes (197-348)
    processedChunks,
    combinedChunks,
    currentGroup,
    currentGroupTokens,
    currentGroupIndex,
    i,
    groupCalls,          \* groups for which a group-combine call was started
    finalCalls,          \* section lists for which the final-combine call was started
    \* ---- retryWithBackoff (47-71)
    maxRetries,
    initialDelay,
    retries,
    currentDelay,
    rpc,                 \* position inside retryWithBackoff
    rval,                \* value it returned
    rerr,                \* message of the error it threw
    outcomes,            \* outcome of every invocation of `operation`, in order
    waits,               \* every backoff wait performed, in order
    \* ---- FileUpload (part_000)
    chunkSize,           \* CHUNK_SIZE, in bytes
    overlapSize,         \* OVERLAP_DURATION * 1024 * 1024, in bytes
    file,                \* the file handed to onDrop: its name and size
    apc,                 \* position of onDrop
    audioChunks,         \* byte ranges [start, end) returned by splitAudioFile
    transcriptions,      \* the transcriptions pushed, in order
    transcribeCalls,     \* chunk indexes sent to the transcription service, in order
    transcribed,         \* the texts handed to onTranscription, in order
    resolved,            \* the array mergeTranscriptions' map returned
    toasts,              \* toasts shown, in order
    progress,            \* <<n, d>>: setProgress((n / d) * 100)
    \* splitTextIntoChunks
    text,                \* the text handed to splitTextIntoChunks
    textChunkSize,       \* its chunkSize argument
    textChunks,          \* the chunks it returned
    tpc,                 \* "idle" before the call, "split" after it
    \* the progress bar of NotesProcessor
    notesProgress        \* <<n, d>>: setProgress(n / d), in percent

runVars   == <<apiKey, isLoading, error, pc, delivered>>
poolVars  == <<chunks, concurrencyLimit, results, currentIndex, activePromises,
               currentMinuteTokens, wpc, widx, chunkError, checkedAt, issued,
               completionOrder>>
reduceVars == <<processedChunks, combinedChunks, currentGroup, currentGroupTokens,
                currentGroupIndex, i, groupCalls, finalCalls>>
retryVars == <<maxRetries, initialDelay, retries, currentDelay, rpc, rval, rerr,
               outcomes, waits>>
audioVars == <<chunkSize, overlapSize, file, apc, audioChunks, transcriptions,
               transcribeCalls, transcribed, resolved, toasts, progress>>
textVars == <<text, textChunkSize, textChunks, tpc>>
vars == <<runVars, poolVars, reduceVars, retryVars, audioVars, textVars, notesProgress>>

-----------------------------------------------------------------------------
\* Bounds of the model
MaxChunks == 3
MaxConcurrency == 2
MaxRetriesArg == 5
MaxAudioChunks == 3
MaxFileSize == 12
MaxChunkSize == 4
MaxOverlap == 5
MaxTextLen == 5
MaxTextChunkSize == 3
MaxProcessed == 4
MaxLiveChunks == 2

\* Program constants
TOKEN_LIMIT_PER_MINUTE == 8000
TOKEN_BUFFER == 1000
GroupTokenLimit == 2000
DefaultMaxRetries == 5
DefaultInitialDelay == 5000
CHUNK_SIZE == 5 * 1024 * 1024
OVERLAP_DURATION == 15
\* the chunkSize processNotes hands to splitTextIntoChunks
NotesChunkSize == 300

\* Lengths of the text chunks handed to the scheduler.  splitTextIntoChunks
\* emits a word longer than its limit whole, so a chunk can be far longer
\* than 300 characters.
ChunkLens == {11999, 28001}
\* Lengths of the texts the external model answers with
OutLens == {4000, 8004}
InitialDelays == {1000, DefaultInitialDelay}

Min(a, b) == IF a < b THEN a ELSE b
Max(a, b) == IF a > b THEN a ELSE b

\* Math.ceil(a / b) for a >= 0 and b > 0 (preceded by a faulty variant that
\* rounds down)
FloorDiv(a, b) == a \div b
CeilDiv(a, b) == (a + b - 1) \div b

-----------------------------------------------------------------------------
\* Error messages, as sequences of pieces: Includes is String.includes.
Msg429 == <<"4", "2", "9", " Too Many Requests">>
Msg401 == <<"4", "0", "1", " Unauthorized">>
MsgNoContent == <<"No content received from API">>
MsgNoFinalContent == <<"No content received from final API call">>
NoMessage == <<>>
ApiErrors == {Msg429, Msg401, NoMessage}

Includes(msg, pat) ==
    \E k \in 0..(Len(msg) - Len(pat)) :
        \A j \in 1..Len(pat) : msg[k + j] = pat[j]

IsRateLimit(msg) == Includes(msg, <<"4", "2", "9">>)

\* estimateTokens: Math.ceil(text.length / 4)
EstimateTokens(len) == (len + 3) \div 4

-----------------------------------------------------------------------------
\* Strings, as sequences of characters, and the String methods the program
\* calls on them

Spaces == {" ", "\n"}
Terminators == {".", "!", "?"}
LowerOf(c) ==
    CASE c = "A" -> "a" [] c = "B" -> "b" [] c = "C" -> "c"
      [] c = "F" -> "f" [] c = "M" -> "m" [] c = "T" -> "t" [] OTHER -> c

ToLowerCase(s) == [k \in 1..Len(s) |-> LowerOf(s[k])]
EndsWith(s, suffix) ==
    /\ Len(s) >= Len(suffix)
    /\ SubSeq(s, Len(s) - Len(suffix) + 1, Len(s)) = suffix

\* s.trim()
Trim(s) ==
    LET solid == {k \in 1..Len(s) : s[k] \notin Spaces}
    IN IF solid = {} THEN <<>>
       ELSE SubSeq(s, CHOOSE k \in solid : \A j \in solid : k <= j,
                      CHOOSE k \in solid : \A j \in solid : k >= j)

\* s.indexOf(pat), and s.substring(from)
IndexOf(s, pat) ==
    LET hits == {k \in 0..(Len(s) - Len(pat)) :
                    \A j \in 1..Len(pat) : s[k + j] = pat[j]}
    IN IF hits = {} THEN -1 ELSE CHOOSE k \in hits : \A j \in hits : k <= j
SubstringUpTo(s, from) == SubSeq(s, 1, from)
Substring(s, from) == SubSeq(s, from + 1, Len(s))

\* the j-th smallest element of a set of numbers
Nth(P, j) == CHOOSE k \in P : Cardinality({x \in P : x < k}) = j - 1

\* the pieces of s between the characters at the positions P
Pieces(s, P) ==
    LET n == Cardinality(P)
        pos(j) == IF j = 0 THEN 0 ELSE IF j = n + 1 THEN Len(s) + 1 ELSE Nth(P, j)
    IN [j \in 1..(n + 1) |-> SubSeq(s, pos(j - 1) + 1, pos(j) - 1)]

\* the pieces, when a run of adjacent separator characters is one separator:
\* the empty pieces inside a run are not there
CollapseRuns(ps) ==
    LET keep == {j \in 1..Len(ps) : j = 1 \/ j = Len(ps) \/ ps[j] # <<>>}
    IN [j \in 1..Cardinality(keep) |-> ps[Nth(keep, j)]]

\* s.split(' '), s.split(/[.!?]/), s.split(/\s+/)
SplitAtBlanks(s) == Pieces(s, {k \in 1..Len(s) : s[k] = " "})
SplitAtTerminators(s) == Pieces(s, {k \in 1..Len(s) : s[k] \in Terminators})
SplitAtSpaceRuns(s) == CollapseRuns(Pieces(s, {k \in 1..Len(s) : s[k] \in Spaces}))

\* s.split(/(?<=[.!?])\s+/): a separator is a run of white space that starts
\* right after a terminator
SplitSentences(s) ==
    LET sep == {k \in 1..Len(s) :
                   /\ s[k] \in Spaces
                   /\ \E j \in 1..(k - 1) :
                         /\ s[j] \in Terminators
                         /\ \A m \in (j + 1)..k : s[m] \in Spaces}
    IN CollapseRuns(Pieces(s, sep))

\* pieces.join(sep)
RECURSIVE Join(_, _)
Join(ps, sep) ==
    IF ps = <<>> THEN <<>>
    ELSE IF Len(ps) = 1 THEN ps[1]
    ELSE ps[1] \o sep \o Join(Tail(ps), sep)

-----------------------------------------------------------------------------
\* splitTextIntoChunks

\* chunk + (chunk ? ' ' : '') + piece
AppendedNoBlank(chunk, piece) == chunk \o piece
Appended(chunk, piece) ==
    chunk \o (IF chunk # <<>> THEN <<" ">> ELSE <<>>) \o piece

\* the loop over the words of a sentence longer than chunkSize
RECURSIVE WordLoop(_, _, _, _)
WordLoop(words, size, out, tempChunk) ==
    IF words = <<>> THEN [chunks |-> out, tempChunk |-> tempChunk]
    ELSE LET word == Head(words)
         IN IF Len(tempChunk \o word) > size
            THEN WordLoop(Tail(words), size, Append(out, Trim(tempChunk)), word)
            ELSE WordLoop(Tail(words), size, out, Appended(tempChunk, word))

\* the loop over the sentences
RECURSIVE SentenceLoop(_, _, _, _)
SentenceLoop(sentences, size, out, currentChunk) ==
    IF sentences = <<>>
    THEN IF currentChunk # <<>> THEN Append(out, Trim(currentChunk)) ELSE out
    ELSE LET sentence == Head(sentences)
             rest == Tail(sentences)
         IN IF Len(currentChunk \o sentence) > size
            THEN LET flushed == IF currentChunk # <<>>
                                THEN Append(out, Trim(currentChunk)) ELSE out
                 IN IF Len(sentence) > size
                    THEN LET w == WordLoop(SplitAtBlanks(sentence), size, flushed, <<>>)
                         IN SentenceLoop(rest, size, w.chunks, w.tempChunk)
                    ELSE SentenceLoop(rest, size, flushed, sentence)
            ELSE SentenceLoop(rest, size, out, Appended(currentChunk, sentence))

SplitTextIntoChunks(t, size) == SentenceLoop(SplitSentences(t), size, <<>>, <<>>)

-----------------------------------------------------------------------------
\* retryWithBackoff

\* the test of the catch block: retry or rethrow (preceded by two faulty
\* variants: one retries every error, one allows a retry too many)
ShouldRetryAnyError(msg, r, max) == r < max - 1
ShouldRetryOffByOne(msg, r, max) == IsRateLimit(msg) /\ r < max
ShouldRetry(msg, r, max) == IsRateLimit(msg) /\ r < max - 1

NextDelay(d) == d * 2

\* entry: the locals are set and the while test is made for the first time
RetryEnter(max, init) ==
    /\ maxRetries' = max
    /\ initialDelay' = init
    /\ retries' = 0
    /\ currentDelay' = init
    /\ outcomes' = <<>>
    /\ waits' = <<>>
    /\ rerr' = NoMessage
    /\ rval' = "undefined"
    /\ rpc' = IF 0 < max THEN "preWait" ELSE "returned"

\* await wait(2000) is over: operation() is invoked
InvokeOperation ==
    /\ rpc = "preWait"
    /\ rpc' = "call"
    /\ UNCHANGED <<maxRetries, initialDelay, retries, currentDelay, rval, rerr,
                   outcomes, waits>>

\* operation() resolves: its value is returned
OperationResolves(v) ==
    /\ rpc = "call"
    /\ rpc' = "returned"
    /\ rval' = v
    /\ outcomes' = Append(outcomes, <<"ok">>)
    /\ UNCHANGED <<maxRetries, initialDelay, retries, currentDelay, rerr, waits>>

\* operation() rejects: the catch block
OperationRejects(msg) ==
    /\ rpc = "call"
    /\ outcomes' = Append(outcomes, msg)
    /\ IF ShouldRetry(msg, retries, maxRetries)
       THEN /\ retries' = retries + 1
            /\ waits' = Append(waits, currentDelay)
            /\ rpc' = "backoff"
            /\ UNCHANGED rerr
       ELSE /\ rpc' = "thrown"
            /\ rerr' = msg
            /\ UNCHANGED <<retries, waits>>
    /\ UNCHANGED <<maxRetries, initialDelay, currentDelay, rval>>

\* await wait(currentDelay) is over: double the delay, continue the loop
BackoffElapsed ==
    /\ rpc = "backoff"
    /\ currentDelay' = NextDelay(currentDelay)
    /\ IF retries < maxRetries
       THEN rpc' = "preWait"
       ELSE rpc' = "returned"
    /\ UNCHANGED <<maxRetries, initialDelay, retries, rval, rerr, outcomes, waits>>

\* the caller took the value or the error: the locals are gone
RetryDiscard ==
    /\ maxRetries' = 0
    /\ initialDelay' = 0
    /\ retries' = 0
    /\ currentDelay' = 0
    /\ rpc' = "idle"
    /\ rval' = "undefined"
    /\ rerr' = NoMessage
    /\ outcomes' = <<>>
    /\ waits' = <<>>

\* what a completion request answers: a text, or no usable content
Answers == {"content", "empty"}

-----------------------------------------------------------------------------
\* processChunksInParallel

NoError == <<"null">>
NoResult == [src |-> -1, len |-> 0]

\* the budget test of processNextChunk
OverBudgetNoBuffer(tokens, est) == tokens + est > TOKEN_LIMIT_PER_MINUTE
OverBudget(tokens, est) == tokens + est > TOKEN_LIMIT_PER_MINUTE - TOKEN_BUFFER

\* results[index] = result (preceded by a faulty variant that fills the
\* first free slot)
StoreResultInArrivalOrder(res, index, out) ==
    LET free == {k \in 1..Len(res) : res[k] = NoResult}
        first == CHOOSE k \in free : \A j \in free : k <= j
    IN [res EXCEPT ![first] = out]
StoreResult(res, index, out) == [res EXCEPT ![index + 1] = out]

\* Array(Math.min(concurrencyLimit, chunks.length)) (preceded by a faulty
\* variant that starts a worker per chunk)
InitialBatchWholeList(limit, n) == n
InitialBatchSize(limit, n) == Min(limit, n)

\* The state of the pool that the synchronous part of processNextChunk reads
\* and writes, as a record.
PoolState == [currentIndex |-> currentIndex, wpc |-> wpc, widx |-> widx,
              checkedAt |-> checkedAt, issued |-> issued,
              progress |-> notesProgress]

\* processChunk up to its await: setProgress((index / totalChunks) * 30)
\* and the request for chunk `index` is sent (80-83)
SendRequest(p, w, index) ==
    [p EXCEPT !.wpc[w] = "inflight", !.issued[index + 1] = @ + 1,
              !.progress = <<30 * index, Len(p.issued)>>]

\* faulty variant of processNextChunk: `const index = currentIndex` with the
\* increment left out
ProcessNextChunkStaleIndex(p, w, cs, tokens) ==
    IF p.currentIndex >= Len(cs)
    THEN [p EXCEPT !.wpc[w] = "done"]
    ELSE LET index == p.currentIndex
             q == [p EXCEPT !.widx[w] = index, !.checkedAt[w] = tokens]
         IN IF OverBudget(tokens, EstimateTokens(cs[index + 1]))
            THEN [q EXCEPT !.wpc[w] = "cooldown"]
            ELSE SendRequest(q, w, index)

\* processNextChunk from its entry to its first await, run by worker w while
\* the counter holds `tokens`
ProcessNextChunk(p, w, cs, tokens) ==
    IF p.currentIndex >= Len(cs)
    THEN [p EXCEPT !.wpc[w] = "done"]
    ELSE LET index == p.currentIndex
             q == [p EXCEPT !.currentIndex = index + 1, !.widx[w] = index,
                            !.checkedAt[w] = tokens]
         IN IF OverBudget(tokens, EstimateTokens(cs[index + 1]))
            THEN [q EXCEPT !.wpc[w] = "cooldown"]
            ELSE SendRequest(q, w, index)

\* the map() over the initial batch: workers 1..n enter processNextChunk one
\* after the other, with no suspension in between
RECURSIVE StartWorkers(_, _, _, _)
StartWorkers(p, w, n, cs) ==
    IF w > n THEN p
    ELSE StartWorkers(ProcessNextChunk(p, w, cs, 0), w + 1, n, cs)

SetPool(p) ==
    /\ currentIndex' = p.currentIndex
    /\ wpc' = p.wpc
    /\ widx' = p.widx
    /\ checkedAt' = p.checkedAt
    /\ issued' = p.issued
    /\ notesProgress' = p.progress

\* the catch block of processNotes (349-370)
ClassifyError(msg) ==
    IF Includes(msg, <<"4", "0", "1">>)
    THEN <<"Invalid API key. Please check your API key and try again.">>
    ELSE IF Includes(msg, <<"4", "2", "9">>)
    THEN <<"Rate limit exceeded. Please wait a few minutes and try again.">>
    ELSE msg

\* faulty variant: the catch block without the finally
CatchWithoutFinally(msg) ==
    /\ error' = ClassifyError(msg)
    /\ pc' = "failed"
    /\ UNCHANGED <<apiKey, isLoading, delivered>>

\* catch and finally of processNotes
Catch(msg) ==
    /\ error' = ClassifyError(msg)
    /\ isLoading' = FALSE
    /\ pc' = "failed"
    /\ UNCHANGED <<apiKey, delivered>>

\* processNotes without a key (175-178); the Process Notes button is
\* disabled while isLoading (430-438)
ProcessNotesNoKey ==
    /\ pc = "idle"
    /\ ~isLoading
    /\ ~apiKey
    /\ error' = <<"Please enter your OpenAI API key">>
    /\ pc' = "rejected"
    /\ UNCHANGED <<apiKey, isLoading, delivered>>
    /\ UNCHANGED <<poolVars, reduceVars, retryVars>>
    /\ UNCHANGED <<audioVars, textVars, notesProgress>>

\* processNotes from its entry to the await of processChunksInParallel
\* (174-197, 123-170)
ProcessNotes(cs, limit) ==
    /\ pc = "idle"
    /\ ~isLoading
    /\ apiKey
    /\ isLoading' = TRUE
    /\ error' = NoError
    /\ pc' = "dispatch"
    /\ chunks' = cs
    /\ concurrencyLimit' = limit
    /\ results' = [k \in 1..Len(cs) |-> NoResult]
    /\ currentMinuteTokens' = 0
    /\ completionOrder' = <<>>
    /\ LET n == InitialBatchSize(limit, Len(cs))
           p0 == [currentIndex |-> 0,
                  wpc |-> [w \in 1..n |-> "new"],
                  widx |-> [w \in 1..n |-> 0],
                  checkedAt |-> [w \in 1..n |-> 0],
                  issued |-> [k \in 1..Len(cs) |-> 0],
                  progress |-> <<0, 1>>]
       IN /\ SetPool(StartWorkers(p0, 1, n, cs))
          /\ activePromises' = n
          /\ chunkError' = [k \in 1..Len(cs) |-> NoError]
    /\ UNCHANGED <<apiKey, delivered>>
    /\ UNCHANGED <<reduceVars, retryVars>>
    /\ UNCHANGED <<audioVars, textVars>>

\* wait(60000) of worker w is over: the counter is reset and the request sent
CoolDownElapsed(w) ==
    /\ wpc[w] = "cooldown"
    /\ currentMinuteTokens' = 0
    /\ SetPool(SendRequest([PoolState EXCEPT !.checkedAt[w] = 0], w, widx[w]))
    /\ UNCHANGED <<chunks, concurrencyLimit, results, activePromises, chunkError,
                   completionOrder>>
    /\ UNCHANGED <<runVars, reduceVars, retryVars>>
    /\ UNCHANGED <<audioVars, textVars>>

\* faulty variant: the catch block of processNextChunk logs the error and does
\* not rethrow it: the worker goes on as after a success, with no result stored
ChunkFailsSwallowed(w, msg) ==
    /\ wpc[w] = "inflight"
    /\ chunkError' = [chunkError EXCEPT ![widx[w] + 1] = msg]
    /\ IF currentIndex < Len(chunks)
       THEN /\ activePromises' = activePromises
            /\ SetPool(ProcessNextChunk(PoolState, w, chunks, currentMinuteTokens))
       ELSE /\ activePromises' = activePromises - 1
            /\ SetPool([PoolState EXCEPT !.wpc[w] = "done"])
    /\ UNCHANGED <<chunks, concurrencyLimit, results, currentMinuteTokens,
                   completionOrder>>
    /\ UNCHANGED <<runVars, reduceVars, retryVars>>
    /\ UNCHANGED <<audioVars, textVars>>

\* the request of worker w is rejected, or answered without content
\* (110-113): the worker rethrows, Promise.all rejects with the first
\* rejection and processNotes runs its catch
ChunkFails(w, msg) ==
    /\ wpc[w] = "inflight"
    /\ wpc' = [wpc EXCEPT ![w] = "failed"]
    /\ chunkError' = [chunkError EXCEPT ![widx[w] + 1] = msg]
    /\ IF pc = "dispatch" THEN Catch(msg) ELSE UNCHANGED runVars
    /\ UNCHANGED <<chunks, concurrencyLimit, results, currentIndex, activePromises,
                   currentMinuteTokens, widx, checkedAt, issued, completionOrder>>
    /\ UNCHANGED <<reduceVars, retryVars>>
    /\ UNCHANGED <<audioVars, textVars, notesProgress>>

\* the request of worker w is answered with a text of `len` characters
\* (147-159)
ChunkSucceeds(w, len) ==
    /\ wpc[w] = "inflight"
    /\ LET index == widx[w]
           tokens == currentMinuteTokens + EstimateTokens(chunks[index + 1])
       IN /\ results' = StoreResult(results, index, [src |-> index, len |-> len])
          /\ currentMinuteTokens' = tokens
          /\ completionOrder' = Append(completionOrder, index)
          /\ IF currentIndex < Len(chunks)
             THEN /\ activePromises' = activePromises
                  /\ SetPool(ProcessNextChunk(PoolState, w, chunks, tokens))
             ELSE /\ activePromises' = activePromises - 1
                  /\ SetPool([PoolState EXCEPT !.wpc[w] = "done"])
    /\ UNCHANGED <<chunks, concurrencyLimit, chunkError>>
    /\ UNCHANGED <<runVars, reduceVars, retryVars>>
    /\ UNCHANGED <<audioVars, textVars>>

\* Promise.all resolves, processChunksInParallel returns results and its
\* locals are gone (170-171, 197)
DispatchReturns ==
    /\ pc = "dispatch"
    /\ \A w \in 1..Len(wpc) : wpc[w] = "done"
    /\ processedChunks' = results
    /\ pc' = "reduce"
    /\ currentIndex' = 0
    /\ activePromises' = 0
    /\ currentMinuteTokens' = 0
    /\ wpc' = <<>>
    /\ widx' = <<>>
    /\ checkedAt' = <<>>
    /\ completionOrder' = <<>>
    /\ UNCHANGED <<chunks, concurrencyLimit, results, chunkError, issued>>
    /\ UNCHANGED <<apiKey, isLoading, error, delivered>>
    /\ UNCHANGED <<combinedChunks, currentGroup, currentGroupTokens,
                   currentGroupIndex, i, groupCalls, finalCalls>>
    /\ UNCHANGED retryVars
    /\ UNCHANGED <<audioVars, textVars, notesProgress>>

-----------------------------------------------------------------------------
\* The reducer of processNotes (203-348)

CallDefaults == RetryEnter(DefaultMaxRetries, DefaultInitialDelay)

\* the final-combine call is started (303-338)
StartFinalCall(sections) ==
    /\ notesProgress' = <<90, 1>>
    /\ finalCalls' = Append(finalCalls, sections)
    /\ CallDefaults
    /\ pc' = "finalCall"

\* one pass of the for loop that ends without a flush, or that reaches the
\* group-combine call (209-218, 257-260)
ReduceLoop ==
    /\ pc = "reduce"
    /\ i < Len(processedChunks)
    /\ LET totalGroups == CeilDiv(Len(processedChunks), 5)
       IN notesProgress' = <<30 * totalGroups + 30 * currentGroupIndex, totalGroups>>
    /\ LET chunkTokens == EstimateTokens(processedChunks[i + 1].len)
       IN IF currentGroupTokens + chunkTokens > GroupTokenLimit
          THEN /\ groupCalls' = Append(groupCalls, currentGroup)
               /\ CallDefaults
               /\ pc' = "groupCall"
               /\ UNCHANGED <<currentGroup, currentGroupTokens, i>>
          ELSE /\ currentGroup' = Append(currentGroup, i)
               /\ currentGroupTokens' = currentGroupTokens + chunkTokens
               /\ i' = i + 1
               /\ UNCHANGED <<pc, groupCalls, retryVars>>
    /\ UNCHANGED <<apiKey, isLoading, error, delivered>>
    /\ UNCHANGED <<processedChunks, combinedChunks, currentGroupIndex, finalCalls>>
    /\ UNCHANGED poolVars
    /\ UNCHANGED <<audioVars, textVars>>

\* faulty variant: the new group starts empty, without the overflowing chunk
GroupCallReturnsDropsChunk ==
    /\ pc = "groupCall"
    /\ rpc = "returned"
    /\ combinedChunks' = IF rval = "content"
                         THEN Append(combinedChunks, currentGroupIndex)
                         ELSE combinedChunks
    /\ currentGroup' = <<>>
    /\ currentGroupTokens' = 0
    /\ currentGroupIndex' = currentGroupIndex + 1
    /\ pc' = "groupWait"
    /\ RetryDiscard
    /\ UNCHANGED <<apiKey, isLoading, error, delivered>>
    /\ UNCHANGED <<processedChunks, i, groupCalls, finalCalls>>
    /\ UNCHANGED poolVars
    /\ UNCHANGED <<audioVars, textVars, notesProgress>>

\* the group-combine call returned (247-256)
GroupCallReturns ==
    /\ pc = "groupCall"
    /\ rpc = "returned"
    /\ combinedChunks' = IF rval = "content"
                         THEN Append(combinedChunks, currentGroupIndex)
                         ELSE combinedChunks
    /\ currentGroup' = <<i>>
    /\ currentGroupTokens' = EstimateTokens(processedChunks[i + 1].len)
    /\ currentGroupIndex' = currentGroupIndex + 1
    /\ pc' = "groupWait"
    /\ RetryDiscard
    /\ UNCHANGED <<apiKey, isLoading, error, delivered>>
    /\ UNCHANGED <<processedChunks, i, groupCalls, finalCalls>>
    /\ UNCHANGED poolVars
    /\ UNCHANGED <<audioVars, textVars, notesProgress>>

\* wait(3000) after a flush is over: next pass of the loop
GroupWaitElapsed ==
    /\ pc = "groupWait"
    /\ i' = i + 1
    /\ pc' = "reduce"
    /\ UNCHANGED <<apiKey, isLoading, error, delivered>>
    /\ UNCHANGED <<processedChunks, combinedChunks, currentGroup, currentGroupTokens,
                   currentGroupIndex, groupCalls, finalCalls>>
    /\ UNCHANGED <<poolVars, retryVars>>
    /\ UNCHANGED <<audioVars, textVars, notesProgress>>

\* faulty variant: the call for the remaining group is not awaited, the
\* final call is issued in the same step over the sections there are
ReduceLoopEndsNoAwait ==
    /\ pc = "reduce"
    /\ i >= Len(processedChunks)
    /\ groupCalls' = IF Len(currentGroup) > 0
                     THEN Append(groupCalls, currentGroup)
                     ELSE groupCalls
    /\ StartFinalCall(combinedChunks)
    /\ UNCHANGED <<apiKey, isLoading, error, delivered>>
    /\ UNCHANGED <<processedChunks, combinedChunks, currentGroup, currentGroupTokens,
                   currentGroupIndex, i>>
    /\ UNCHANGED poolVars
    /\ UNCHANGED <<audioVars, textVars>>

\* the loop is over: the remaining group, if any, else the final call
\* (263-267, 303-308)
ReduceLoopEnds ==
    /\ pc = "reduce"
    /\ i >= Len(processedChunks)
    /\ IF Len(currentGroup) > 0
       THEN /\ groupCalls' = Append(groupCalls, currentGroup)
            /\ CallDefaults
            /\ pc' = "finalGroupCall"
            /\ UNCHANGED <<finalCalls, notesProgress>>
       ELSE /\ StartFinalCall(combinedChunks)
            /\ UNCHANGED groupCalls
    /\ UNCHANGED <<apiKey, isLoading, error, delivered>>
    /\ UNCHANGED <<processedChunks, combinedChunks, currentGroup, currentGroupTokens,
                   currentGroupIndex, i>>
    /\ UNCHANGED poolVars
    /\ UNCHANGED <<audioVars, textVars>>

\* the call for the remaining group returned (296-308)
FinalGroupCallReturns ==
    /\ pc = "finalGroupCall"
    /\ rpc = "returned"
    /\ LET sections == IF rval = "content"
                       THEN Append(combinedChunks, currentGroupIndex)
                       ELSE combinedChunks
       IN /\ combinedChunks' = sections
          /\ StartFinalCall(sections)
    /\ UNCHANGED <<apiKey, isLoading, error, delivered>>
    /\ UNCHANGED <<processedChunks, currentGroup, currentGroupTokens,
                   currentGroupIndex, i, groupCalls>>
    /\ UNCHANGED poolVars
    /\ UNCHANGED <<audioVars, textVars>>

\* the final-combine call returned (340-348, 371-373)
FinalCallReturns ==
    /\ pc = "finalCall"
    /\ rpc = "returned"
    /\ RetryDiscard
    /\ IF rval = "content"
       THEN /\ notesProgress' = <<100, 1>>
            /\ delivered' = Append(delivered, combinedChunks)
            /\ isLoading' = FALSE
            /\ pc' = "done"
            /\ UNCHANGED <<apiKey, error>>
       ELSE /\ Catch(MsgNoFinalContent)
            /\ UNCHANGED notesProgress
    /\ UNCHANGED <<poolVars, reduceVars>>
    /\ UNCHANGED <<audioVars, textVars>>

\* faulty variant: the error of a combine call is caught at the call and the
\* reducer goes on as after an answer without content
CallThrowsSwallowed ==
    /\ pc \in {"groupCall", "finalGroupCall", "finalCall"}
    /\ rpc = "thrown"
    /\ rpc' = "returned"
    /\ rval' = "empty"
    /\ UNCHANGED <<maxRetries, initialDelay, retries, currentDelay, rerr, outcomes,
                   waits>>
    /\ UNCHANGED <<runVars, poolVars, reduceVars>>
    /\ UNCHANGED <<audioVars, textVars, notesProgress>>

\* retryWithBackoff threw inside the try block of processNotes (349-373)
CallThrows ==
    /\ pc \in {"groupCall", "finalGroupCall", "finalCall"}
    /\ rpc = "thrown"
    /\ RetryDiscard
    /\ Catch(rerr)
    /\ UNCHANGED <<poolVars, reduceVars>>
    /\ UNCHANGED <<audioVars, textVars, notesProgress>>

\* a step of a combine call's retryWithBackoff
CombineCall(RetryAction) ==
    /\ pc \in {"groupCall", "finalGroupCall", "finalCall"}
    /\ RetryAction
    /\ UNCHANGED <<runVars, poolVars, reduceVars>>
    /\ UNCHANGED <<audioVars, textVars, notesProgress>>

-----------------------------------------------------------------------------
\* FileUpload: splitAudioFile (part_000 34-48)


\* Blob.slice(start, end) on a blob of `size` bytes: a negative offset counts
\* from the end, offsets are clamped to the blob, an inverted range is empty
RelativeOffset(size, o) == IF o < 0 THEN Max(size + o, 0) ELSE Min(o, size)
Slice(size, start, end) ==
    LET s == RelativeOffset(size, start)
    IN [start |-> s, end |-> Max(RelativeOffset(size, end), s)]

\* `start` of chunk idx (preceded by a faulty variant without the i > 0 test
\* and the clamp at 0)
ChunkStartNoGuard(idx, cs, ov) == idx * cs - ov
ChunkStart(idx, cs, ov) == Max(0, idx * cs - (IF idx > 0 THEN ov ELSE 0))

\* `end` of chunk idx
ChunkEnd(idx, total, size, cs, ov) ==
    Min(size, (idx + 1) * cs + (IF idx < total - 1 THEN ov ELSE 0))

\* the for loop of splitAudioFile from index idx on, `acc` being `chunks`
RECURSIVE SplitLoop(_, _, _, _, _, _)
SplitLoop(acc, idx, total, size, cs, ov) ==
    IF idx >= total THEN acc
    ELSE SplitLoop(Append(acc, Slice(size, ChunkStart(idx, cs, ov),
                                     ChunkEnd(idx, total, size, cs, ov))),
                   idx + 1, total, size, cs, ov)

SplitAudioFile(size, cs, ov) == SplitLoop(<<>>, 0, CeilDiv(size, cs), size, cs, ov)

-----------------------------------------------------------------------------
\* FileUpload: mergeTranscriptions and findOverlapPoints (part_000 68-114)

\* words.slice(-i).join(' ')
Phrase(words, count) ==
    Join(SubSeq(words, Len(words) - count + 1, Len(words)), <<" ">>)

\* the phrases of the last i words of lastSentence, for i from words.length
\* down to least, that occur in currentText, case ignored
OverlapPhrases(lastSentence, currentText, least) ==
    LET words == SplitAtSpaceRuns(lastSentence)
        n == Len(words)
        all == [j \in 1..Max(0, n - least + 1) |-> Phrase(words, n - j + 1)]
    IN SelectSeq(all, LAMBDA phrase :
                        Includes(ToLowerCase(currentText), ToLowerCase(phrase)))

FindOverlapPointsFromTwoWords(lastSentence, currentText) ==
    OverlapPhrases(lastSentence, currentText, 2)
FindOverlapPoints(lastSentence, currentText) ==
    OverlapPhrases(lastSentence, currentText, 3)

\* overlapPoints.reduce((a, b) => a.length > b.length ? a : b)
RECURSIVE Reduce(_, _)
Reduce(a, rest) ==
    IF rest = <<>> THEN a
    ELSE Reduce(IF Len(a) > Len(Head(rest)) THEN a ELSE Head(rest), Tail(rest))

\* the last piece of prevText between terminators that is not blank, trimmed
LastSentence(prevText) ==
    LET lastSentences == SelectSeq(SplitAtTerminators(prevText),
                                   LAMBDA x : Len(Trim(x)) > 0)
    IN IF lastSentences = <<>> THEN <<>>
       ELSE Trim(lastSentences[Len(lastSentences)])

\* overlapIndex >= 0 && overlapIndex < currentText.length / 2
Anywhere(overlapIndex, currentText) == overlapIndex >= 0
InFirstHalf(overlapIndex, currentText) ==
    overlapIndex >= 0 /\ 2 * overlapIndex < Len(currentText)

\* the callback of map, for index > 0
ResolveOverlap(prevText, t) ==
    LET currentText == Trim(t)
        lastSentence == LastSentence(prevText)
        overlapPoints == FindOverlapPoints(lastSentence, currentText)
        bestOverlap == Reduce(Head(overlapPoints), Tail(overlapPoints))
        overlapIndex == IndexOf(ToLowerCase(currentText), ToLowerCase(bestOverlap))
    IN IF lastSentence = <<>> THEN currentText
       ELSE IF overlapPoints # <<>> /\ InFirstHalf(overlapIndex, currentText)
       THEN Trim(Substring(currentText, overlapIndex + Len(bestOverlap)))
       ELSE currentText

\* every result resolved against the resolved form of its predecessor
RECURSIVE ResolvedChained(_)
ResolvedChained(ts) ==
    IF ts = <<>> THEN <<>>
    ELSE IF Len(ts) = 1 THEN <<Trim(ts[1])>>
    ELSE LET before == ResolvedChained(SubSeq(ts, 1, Len(ts) - 1))
         IN Append(before, ResolveOverlap(before[Len(before)], ts[Len(ts)]))

\* transcriptions.map(...)
Resolved(ts) ==
    [index \in 1..Len(ts) |->
        IF index = 1 THEN Trim(ts[1]) ELSE ResolveOverlap(ts[index - 1], ts[index])]

\* text => text.length > 0
KeepAll(t) == TRUE
KeepSegment(t) == Len(t) > 0

Separator == <<"\n", "\n">>

MergeTranscriptions(ts) == Join(SelectSeq(Resolved(ts), KeepSegment), Separator)

-----------------------------------------------------------------------------
\* FileUpload: onDrop (part_000 116-199)

\* File names, as sequences of characters
DotM4a == <<".", "m", "4", "a">>
NameM4a == <<"a", ".", "m", "4", "a">>
NameUpperM4a == <<"A", ".", "M", "4", "A">>
NameMp3 == <<"a", ".", "m", "p", "3">>
NameM4aTxt == <<"a", ".", "m", "4", "a", ".", "t", "x", "t">>
NameBare == <<"m", "4", "a">>
FileNames == {NameM4a, NameUpperM4a, NameMp3, NameM4aTxt, NameBare}


\* file.name.toLowerCase().endsWith('.m4a') (preceded by a faulty variant
\* that uses includes)
AcceptedNameIncludes(name) == Includes(ToLowerCase(name), DotM4a)
AcceptedName(name) == EndsWith(ToLowerCase(name), DotM4a)

\* sizes that give 0 .. MaxAudioChunks chunks
AudioSizes ==
    {0, 1} \cup {k * CHUNK_SIZE : k \in 1..(MaxAudioChunks - 1)}
           \cup {k * CHUNK_SIZE + 1 : k \in 1..(MaxAudioChunks - 1)}
Files == [name : FileNames, size : AudioSizes]
\* acceptedFiles[0] of an empty list
NoFile == [name |-> <<>>, size |-> -1]

\* transcriptions the service answers with
\* "The patient reports mild pain. Follow up in two weeks."
ExamplePrevious ==
    <<"T", "h", "e", " ", "p", "a", "t", "i", "e", "n", "t", " ", "r", "e",
      "p", "o", "r", "t", "s", " ", "m", "i", "l", "d", " ", "p", "a", "i",
      "n", ".", " ", "F", "o", "l", "l", "o", "w", " ", "u", "p", " ", "i",
      "n", " ", "t", "w", "o", " ", "w", "e", "e", "k", "s", ".">>
\* "Follow up in two weeks. The patient should return for evaluation."
ExampleCurrent ==
    <<"F", "o", "l", "l", "o", "w", " ", "u", "p", " ", "i", "n", " ", "t",
      "w", "o", " ", "w", "e", "e", "k", "s", ".", " ", "T", "h", "e", " ",
      "p", "a", "t", "i", "e", "n", "t", " ", "s", "h", "o", "u", "l", "d",
      " ", "r", "e", "t", "u", "r", "n", " ", "f", "o", "r", " ", "e", "v",
      "a", "l", "u", "a", "t", "i", "o", "n", ".">>
\* "a b c."
ThreeWords ==
    <<"a", " ", "b", " ", "c", ".">>
\* "a b c"
SameThreeWords ==
    <<"a", " ", "b", " ", "c">>
\* " A B C d e f g\n"
UpperCaseStart ==
    <<" ", "A", " ", "B", " ", "C", " ", "d", " ", "e", " ", "f", " ", "g",
      "\n">>
\* "d e f a b c"
LateRepeat ==
    <<"d", " ", "e", " ", "f", " ", "a", " ", "b", " ", "c">>
\* ""
Silence == <<>>
\* "b c. x a b c!"
FourWordEnd ==
    <<"b", " ", "c", ".", " ", "x", " ", "a", " ", "b", " ", "c", "!">>
\* "a b c d. b c"
TwoWordEnd ==
    <<"a", " ", "b", " ", "c", " ", "d", ".", " ", "b", " ", "c">>
\* "a b c x a b c e"
TwoRepeats ==
    <<"a", " ", "b", " ", "c", " ", "x", " ", "a", " ", "b", " ", "c", " ",
      "e">>
Transcripts ==
    {ExamplePrevious, ExampleCurrent, ThreeWords, SameThreeWords,
     UpperCaseStart, LateRepeat, Silence, FourWordEnd,
     TwoWordEnd, TwoRepeats}

\* errors of the transcription request
AudioErrors ==
    {[status |-> 401, message |-> Msg401],
     [status |-> 429, message |-> Msg429],
     [status |-> 0, message |-> <<"Invalid ", "file", " format">>],
     [status |-> 0, message |-> NoMessage]}

\* the catch block of onDrop (174-184)
ClassifyAudioError(err) ==
    IF err.status = 401
    THEN "Invalid API key. Please check your API key and try again."
    ELSE IF err.status = 429
    THEN "Rate limit exceeded. Please try again later."
    ELSE IF Includes(err.message, <<"file">>)
    THEN "Error processing the audio file. Please ensure it's a valid M4A file."
    ELSE "Please check your API key and try again"

Toast(title, description) ==
    toasts' = Append(toasts, [title |-> title, description |-> description])

NoProgress == <<0, 1>>

\* onDrop without a key (118-127)
OnDropNoKey(f) ==
    /\ apc = "idle"
    /\ ~apiKey
    /\ file' = f
    /\ Toast("API Key Required", "Please enter your OpenAI API key first")
    /\ apc' = "rejected"
    /\ UNCHANGED <<chunkSize, overlapSize, audioChunks, transcriptions,
                   transcribeCalls, transcribed, resolved, progress>>
    /\ UNCHANGED <<runVars, poolVars, reduceVars, retryVars>>
    /\ UNCHANGED <<textVars, notesProgress>>

\* onDrop with an empty list of accepted files (129-130)
OnDropNoFile ==
    /\ apc = "idle"
    /\ apiKey
    /\ file' = NoFile
    /\ apc' = "rejected"
    /\ UNCHANGED <<chunkSize, overlapSize, audioChunks, transcriptions,
                   transcribeCalls, transcribed, resolved, toasts, progress>>
    /\ UNCHANGED <<runVars, poolVars, reduceVars, retryVars>>
    /\ UNCHANGED <<textVars, notesProgress>>

\* onDrop with a file of another type (132-141)
OnDropWrongType(f) ==
    /\ apc = "idle"
    /\ apiKey
    /\ ~AcceptedName(f.name)
    /\ file' = f
    /\ Toast("Invalid File Type", "Please upload an M4A file")
    /\ apc' = "rejected"
    /\ UNCHANGED <<chunkSize, overlapSize, audioChunks, transcriptions,
                   transcribeCalls, transcribed, resolved, progress>>
    /\ UNCHANGED <<runVars, poolVars, reduceVars, retryVars>>
    /\ UNCHANGED <<textVars, notesProgress>>

\* onDrop from its entry to `await splitAudioFile(file)`, whose body has run
\* (143-152)
OnDrop(f) ==
    /\ apc = "idle"
    /\ apiKey
    /\ AcceptedName(f.name)
    /\ file' = f
    /\ isLoading' = TRUE
    /\ progress' = NoProgress
    /\ audioChunks' = SplitAudioFile(f.size, chunkSize, overlapSize)
    /\ apc' = "split"
    /\ UNCHANGED <<chunkSize, overlapSize, transcriptions, transcribeCalls,
                   transcribed, resolved, toasts>>
    /\ UNCHANGED <<apiKey, error, pc, delivered>>
    /\ UNCHANGED <<poolVars, reduceVars, retryVars>>
    /\ UNCHANGED <<textVars, notesProgress>>

\* the end of the try block, and the finally (164-173, 193-196)
Finish(parts) ==
    /\ resolved' = Resolved(parts)
    /\ transcribed' = Append(transcribed, MergeTranscriptions(parts))
    /\ Toast("Success", "Transcription completed successfully")
    /\ isLoading' = FALSE
    /\ progress' = NoProgress
    /\ apc' = "done"

\* splitAudioFile's promise resolved: the loop starts, or is skipped (153-158)
SplitResolved ==
    /\ apc = "split"
    /\ IF Len(audioChunks) = 0
       THEN /\ Finish(transcriptions)
            /\ UNCHANGED transcribeCalls
       ELSE /\ transcribeCalls' = Append(transcribeCalls, 0)
            /\ apc' = "transcribing"
            /\ UNCHANGED <<isLoading, transcribed, resolved, toasts, progress>>
    /\ UNCHANGED <<chunkSize, overlapSize, file, audioChunks, transcriptions>>
    /\ UNCHANGED <<apiKey, error, pc, delivered>>
    /\ UNCHANGED <<poolVars, reduceVars, retryVars>>
    /\ UNCHANGED <<textVars, notesProgress>>

\* the transcription of chunk i arrived (158-165)
TranscribeResolves(chunkTranscription) ==
    /\ apc = "transcribing"
    /\ LET done == Append(transcriptions, chunkTranscription)
       IN /\ transcriptions' = done
          /\ IF Len(done) < Len(audioChunks)
             THEN /\ progress' = <<Len(done), Len(audioChunks)>>
                  /\ transcribeCalls' = Append(transcribeCalls, Len(done))
                  /\ UNCHANGED <<isLoading, apc, transcribed, resolved, toasts>>
             ELSE /\ Finish(done)
                  /\ UNCHANGED transcribeCalls
    /\ UNCHANGED <<chunkSize, overlapSize, file, audioChunks>>
    /\ UNCHANGED <<apiKey, error, pc, delivered>>
    /\ UNCHANGED <<poolVars, reduceVars, retryVars>>
    /\ UNCHANGED <<textVars, notesProgress>>

\* a loop that would catch the failure itself and go on with the next chunk
TranscribeRejectsSkipsChunk(err) ==
    /\ apc = "transcribing"
    /\ IF Len(transcribeCalls) < Len(audioChunks)
       THEN /\ transcribeCalls' = Append(transcribeCalls, Len(transcribeCalls))
            /\ UNCHANGED <<isLoading, apc, transcribed, resolved, toasts, progress>>
       ELSE /\ Finish(transcriptions)
            /\ UNCHANGED transcribeCalls
    /\ UNCHANGED <<chunkSize, overlapSize, file, audioChunks, transcriptions>>
    /\ UNCHANGED <<apiKey, error, pc, delivered>>
    /\ UNCHANGED <<poolVars, reduceVars, retryVars>>
    /\ UNCHANGED <<textVars, notesProgress>>

\* the transcription request failed: transcribeChunk rethrows, catch and
\* finally of onDrop (62-65, 174-196)
TranscribeRejects(err) ==
    /\ apc = "transcribing"
    /\ Toast("Transcription Failed", ClassifyAudioError(err))
    /\ isLoading' = FALSE
    /\ progress' = NoProgress
    /\ apc' = "failed"
    /\ UNCHANGED <<chunkSize, overlapSize, file, audioChunks, transcriptions,
                   transcribeCalls, transcribed, resolved>>
    /\ UNCHANGED <<apiKey, error, pc, delivered>>
    /\ UNCHANGED <<poolVars, reduceVars, retryVars>>
    /\ UNCHANGED <<textVars, notesProgress>>

-----------------------------------------------------------------------------
\* Specification of a notes run

ChunkLists == UNION {[1..n -> ChunkLens] : n \in 0..MaxChunks}

\* the state before processNotes is called
NotesIdle ==
    /\ apiKey \in BOOLEAN
    /\ isLoading = FALSE
    /\ error = NoError
    /\ pc = "idle"
    /\ delivered = <<>>
    /\ chunks = <<>>
    /\ concurrencyLimit = 0
    /\ results = <<>>
    /\ currentIndex = 0
    /\ activePromises = 0
    /\ currentMinuteTokens = 0
    /\ wpc = <<>>
    /\ widx = <<>>
    /\ chunkError = <<>>
    /\ checkedAt = <<>>
    /\ issued = <<>>
    /\ completionOrder = <<>>
    /\ processedChunks = <<>>
    /\ combinedChunks = <<>>
    /\ currentGroup = <<>>
    /\ currentGroupTokens = 0
    /\ currentGroupIndex = 0
    /\ i = 0
    /\ groupCalls = <<>>
    /\ finalCalls = <<>>
    /\ maxRetries = 0
    /\ initialDelay = 0
    /\ retries = 0
    /\ currentDelay = 0
    /\ rpc = "idle"
    /\ rval = "undefined"
    /\ rerr = NoMessage
    /\ outcomes = <<>>
    /\ waits = <<>>
    /\ notesProgress = <<0, 1>>

\* the state before a file is dropped, for given module constants
AudioIdle(size, overlap) ==
    /\ chunkSize = size
    /\ overlapSize = overlap
    /\ file = NoFile
    /\ apc = "idle"
    /\ audioChunks = <<>>
    /\ transcriptions = <<>>
    /\ transcribeCalls = <<>>
    /\ transcribed = <<>>
    /\ resolved = <<>>
    /\ toasts = <<>>
    /\ progress = NoProgress

TextIdle(t, size) ==
    /\ text = t
    /\ textChunkSize = size
    /\ textChunks = <<>>
    /\ tpc = "idle"

Init ==
    /\ NotesIdle
    /\ AudioIdle(CHUNK_SIZE, OVERLAP_DURATION * 1024 * 1024)
    /\ TextIdle(<<>>, NotesChunkSize)

Next ==
    \/ ProcessNotesNoKey
    \/ \E cs \in ChunkLists, limit \in 1..MaxConcurrency : ProcessNotes(cs, limit)
    \/ \E w \in 1..Len(wpc) : CoolDownElapsed(w)
    \/ \E w \in 1..Len(wpc), msg \in ApiErrors \cup {MsgNoContent} : ChunkFails(w, msg)
    \/ \E w \in 1..Len(wpc), len \in OutLens : ChunkSucceeds(w, len)
    \/ DispatchReturns
    \/ ReduceLoop
    \/ GroupCallReturns
    \/ GroupWaitElapsed
    \/ ReduceLoopEnds
    \/ FinalGroupCallReturns
    \/ FinalCallReturns
    \/ CallThrows
    \/ CombineCall(InvokeOperation)
    \/ \E v \in Answers : CombineCall(OperationResolves(v))
    \/ \E msg \in ApiErrors : CombineCall(OperationRejects(msg))
    \/ CombineCall(BackoffElapsed)

Spec == Init /\ [][Next]_vars

-----------------------------------------------------------------------------
\* Specification of the reducer of processNotes alone: the run is taken where
\* processChunksInParallel has returned the outputs of up to MaxProcessed
\* chunks, sent one at a time

ProcessedLists == UNION {[1..n -> OutLens] : n \in 0..MaxProcessed}

\* the state in which processChunksInParallel returned `outs` (197)
DispatchReturned(outs) ==
    LET n == Len(outs)
        done == [k \in 1..n |-> [src |-> k - 1, len |-> outs[k]]]
    IN /\ apiKey = TRUE
       /\ isLoading = TRUE
       /\ error = NoError
       /\ pc = "reduce"
       /\ delivered = <<>>
       /\ chunks = [k \in 1..n |-> 11999]
       /\ concurrencyLimit = 1
       /\ results = done
       /\ currentIndex = 0
       /\ activePromises = 0
       /\ currentMinuteTokens = 0
       /\ wpc = <<>>
       /\ widx = <<>>
       /\ chunkError = [k \in 1..n |-> NoError]
       /\ checkedAt = <<>>
       /\ issued = [k \in 1..n |-> 1]
       /\ completionOrder = <<>>
       /\ processedChunks = done
       /\ combinedChunks = <<>>
       /\ currentGroup = <<>>
       /\ currentGroupTokens = 0
       /\ currentGroupIndex = 0
       /\ i = 0
       /\ groupCalls = <<>>
       /\ finalCalls = <<>>
       /\ maxRetries = 0
       /\ initialDelay = 0
       /\ retries = 0
       /\ currentDelay = 0
       /\ rpc = "idle"
       /\ rval = "undefined"
       /\ rerr = NoMessage
       /\ outcomes = <<>>
       /\ waits = <<>>
       /\ notesProgress = IF n = 0 THEN <<0, 1>> ELSE <<30 * (n - 1), n>>

InitReduce ==
    /\ \E outs \in ProcessedLists : DispatchReturned(outs)
    /\ AudioIdle(CHUNK_SIZE, OVERLAP_DURATION * 1024 * 1024)
    /\ TextIdle(<<>>, NotesChunkSize)

NextReduce ==
    \/ ReduceLoop
    \/ GroupCallReturns
    \/ GroupWaitElapsed
    \/ ReduceLoopEnds
    \/ FinalGroupCallReturns
    \/ FinalCallReturns
    \/ CallThrows
    \/ CombineCall(InvokeOperation)
    \/ \E v \in Answers : CombineCall(OperationResolves(v))
    \/ \E msg \in ApiErrors : CombineCall(OperationRejects(msg))
    \/ CombineCall(BackoffElapsed)

SpecReduce == InitReduce /\ [][NextReduce]_vars

-----------------------------------------------------------------------------
\* Specification of App: one notes run and one audio run on the isLoading
\* flag they share, for one note chunk and a file of one chunk

InitApp == Init /\ apiKey

NextApp ==
    \/ \E len \in ChunkLens : ProcessNotes(<<len>>, 1)
    \/ \E w \in 1..Len(wpc) : CoolDownElapsed(w)
    \/ \E w \in 1..Len(wpc), msg \in ApiErrors \cup {MsgNoContent} : ChunkFails(w, msg)
    \/ \E w \in 1..Len(wpc), len \in OutLens : ChunkSucceeds(w, len)
    \/ DispatchReturns
    \/ ReduceLoop
    \/ GroupCallReturns
    \/ GroupWaitElapsed
    \/ ReduceLoopEnds
    \/ FinalGroupCallReturns
    \/ FinalCallReturns
    \/ CallThrows
    \/ CombineCall(InvokeOperation)
    \/ \E v \in Answers : CombineCall(OperationResolves(v))
    \/ \E msg \in ApiErrors : CombineCall(OperationRejects(msg))
    \/ CombineCall(BackoffElapsed)
    \/ OnDrop([name |-> NameM4a, size |-> 1])
    \/ SplitResolved
    \/ TranscribeResolves(ThreeWords)
    \/ \E err \in AudioErrors : TranscribeRejects(err)

SpecApp == InitApp /\ [][NextApp]_vars

-----------------------------------------------------------------------------
\* Specification of a notes run in which every step that can be taken is
\* taken in the end: requests are answered or fail, timers elapse, and the
\* continuation of a settled promise runs

LiveChunkLists == UNION {[1..n -> ChunkLens] : n \in 0..MaxLiveChunks}

NextLive ==
    \/ \E cs \in LiveChunkLists, limit \in 1..MaxConcurrency : ProcessNotes(cs, limit)
    \/ \E w \in 1..Len(wpc) : CoolDownElapsed(w)
    \/ \E w \in 1..Len(wpc), msg \in ApiErrors \cup {MsgNoContent} : ChunkFails(w, msg)
    \/ \E w \in 1..Len(wpc), len \in OutLens : ChunkSucceeds(w, len)
    \/ DispatchReturns
    \/ ReduceLoop
    \/ GroupCallReturns
    \/ GroupWaitElapsed
    \/ ReduceLoopEnds
    \/ FinalGroupCallReturns
    \/ FinalCallReturns
    \/ CallThrows
    \/ CombineCall(InvokeOperation)
    \/ \E v \in Answers : CombineCall(OperationResolves(v))
    \/ \E msg \in ApiErrors : CombineCall(OperationRejects(msg))
    \/ CombineCall(BackoffElapsed)

SpecLive == InitApp /\ [][NextLive]_vars /\ WF_vars(NextLive)

-----------------------------------------------------------------------------
\* Specification of retryWithBackoff alone, for every maxRetries and several
\* initial delays

CallRetryWithBackoff(max, init) ==
    /\ rpc = "idle"
    /\ outcomes = <<>>
    /\ RetryEnter(max, init)
    /\ UNCHANGED <<runVars, poolVars, reduceVars>>
    /\ UNCHANGED <<audioVars, textVars, notesProgress>>

RetryAlone(RetryAction) ==
    /\ pc = "idle"
    /\ RetryAction
    /\ UNCHANGED <<runVars, poolVars, reduceVars>>
    /\ UNCHANGED <<audioVars, textVars, notesProgress>>

NextRetry ==
    \/ \E max \in 0..MaxRetriesArg, init \in InitialDelays : CallRetryWithBackoff(max, init)
    \/ RetryAlone(InvokeOperation)
    \/ \E v \in Answers : RetryAlone(OperationResolves(v))
    \/ \E msg \in ApiErrors : RetryAlone(OperationRejects(msg))
    \/ RetryAlone(BackoffElapsed)

SpecRetry == Init /\ [][NextRetry]_vars

-----------------------------------------------------------------------------
\* Specification of an audio run (one drop on FileUpload), together with the
\* key validation of processNotes

NextAudio ==
    \/ \E f \in Files \cup {NoFile} : OnDropNoKey(f)
    \/ OnDropNoFile
    \/ \E f \in Files : OnDropWrongType(f)
    \/ \E f \in Files : OnDrop(f)
    \/ SplitResolved
    \/ \E t \in Transcripts : TranscribeResolves(t)
    \/ \E err \in AudioErrors : TranscribeRejects(err)
    \/ ProcessNotesNoKey

SpecAudio == Init /\ [][NextAudio]_vars

-----------------------------------------------------------------------------
\* Specification of splitAudioFile alone, for small files, chunk sizes and
\* overlaps

InitSplit ==
    /\ NotesIdle
    /\ TextIdle(<<>>, NotesChunkSize)
    /\ \E size \in 1..MaxChunkSize, overlap \in 0..MaxOverlap : AudioIdle(size, overlap)

CallSplitAudioFile(size) ==
    /\ apc = "idle"
    /\ file' = [name |-> NameM4a, size |-> size]
    /\ audioChunks' = SplitAudioFile(size, chunkSize, overlapSize)
    /\ apc' = "split"
    /\ UNCHANGED <<chunkSize, overlapSize, transcriptions, transcribeCalls,
                   transcribed, resolved, toasts, progress>>
    /\ UNCHANGED <<runVars, poolVars, reduceVars, retryVars>>
    /\ UNCHANGED <<textVars, notesProgress>>

NextSplit == \E size \in 0..MaxFileSize : CallSplitAudioFile(size)

SpecSplit == InitSplit /\ [][NextSplit]_vars

-----------------------------------------------------------------------------
\* Specification of splitTextIntoChunks alone, for short texts and small
\* chunk sizes

Alphabet == {"a", "b", ".", " ", "\n"}
Texts == UNION {[1..n -> Alphabet] : n \in 0..MaxTextLen}

InitText ==
    /\ NotesIdle
    /\ apiKey
    /\ AudioIdle(CHUNK_SIZE, OVERLAP_DURATION * 1024 * 1024)
    /\ \E t \in Texts, size \in 1..MaxTextChunkSize : TextIdle(t, size)

CallSplitTextIntoChunks ==
    /\ tpc = "idle"
    /\ textChunks' = SplitTextIntoChunks(text, textChunkSize)
    /\ tpc' = "split"
    /\ UNCHANGED <<text, textChunkSize>>
    /\ UNCHANGED <<runVars, poolVars, reduceVars, retryVars, audioVars, notesProgress>>

NextText == CallSplitTextIntoChunks

SpecText == InitText /\ [][NextText]_vars

-----------------------------------------------------------------------------
\* Properties of the scheduler (checked under Spec)

Workers == 1..Len(wpc)
InFlight == {w \in Workers : wpc[w] = "inflight"}
CoolingDown == {w \in Workers : wpc[w] = "cooldown"}
ChunkFailed == \E k \in 1..Len(chunkError) : chunkError[k] # NoError
\* processChunksInParallel has returned its array to processNotes
Returned ==
    \/ pc \in {"reduce", "groupCall", "groupWait", "finalGroupCall", "finalCall", "done"}
    \/ pc = "failed" /\ wpc = <<>>
InPlace(res) == \A k \in 1..Len(res) : res[k] # NoResult => res[k].src = k - 1

\* C1: in every completion order, slot i of the result array holds the output
\* of chunk i and nothing else; the array that processChunksInParallel
\* returns has all N slots filled; it returns only if no chunk request
\* failed, and it throws only if one did.
ResultsOrderedByIndex ==
    /\ Len(results) = Len(chunks)
    /\ InPlace(results)
    /\ Returned =>
          /\ Len(processedChunks) = Len(chunks)
          /\ \A k \in 1..Len(processedChunks) :
                processedChunks[k] # NoResult /\ processedChunks[k].src = k - 1
          /\ ~ChunkFailed
    /\ ChunkFailed => pc = "failed" /\ wpc # <<>> /\ processedChunks = <<>>
    /\ (pc = "failed" /\ wpc # <<>>) => ChunkFailed

\* C1 witness: three chunks completed in the order 1, 0, 2 and all three
\* results are stored, Promise.all is about to resolve.
OutOfOrderCompletionStored ==
    /\ pc = "dispatch"
    /\ Len(chunks) = 3
    /\ completionOrder = <<1, 0, 2>>
    /\ \A w \in Workers : wpc[w] = "done"
    /\ \A k \in 1..3 : results[k] # NoResult

\* C2 (as claimed): two workers never both hold a passed budget test, made
\* against the same counter value, with neither having added its tokens.
CheckAndReserveAtomic ==
    \A w1 \in Workers, w2 \in Workers :
        (w1 # w2 /\ wpc[w1] = "inflight" /\ wpc[w2] = "inflight")
            => checkedAt[w1] # checkedAt[w2]

\* C3 (as claimed): the token count of one window never exceeds the window
\* limit.
WindowWithinLimit == currentMinuteTokens <= TOKEN_LIMIT_PER_MINUTE

\* C4 (as claimed): while a worker stays in its 60-second cool-down, no other
\* worker whose request returns goes on to send the request of a further
\* chunk.
NoDispatchDuringCoolDown ==
    [][\A w1 \in Workers, w2 \in Workers :
          (/\ w1 # w2
           /\ wpc[w1] = "cooldown"
           /\ wpc[w2] = "inflight"
           /\ Len(wpc') = Len(wpc)
           /\ wpc'[w1] = "cooldown")
              => ~(wpc'[w2] = "inflight" /\ widx'[w2] # widx[w2])]_vars

\* C5 (as claimed): a chunk request that ended with a rate-limit error was
\* attempted the maximum number of times.
RateLimitedChunkRetried ==
    \A k \in 1..Len(chunkError) :
        IsRateLimit(chunkError[k]) => issued[k] >= DefaultMaxRetries

\* C8: once a chunk request has failed, the run is over with an error: no
\* group-combine or final-combine call is started, no operation of a combine
\* call is invoked, the results stored so far never reach processedChunks and
\* onProcessedNotes is not called.
FailedChunkFailsRun ==
    ChunkFailed =>
        /\ pc = "failed"
        /\ error # NoError
        /\ ~isLoading
        /\ groupCalls = <<>>
        /\ finalCalls = <<>>
        /\ rpc = "idle"
        /\ outcomes = <<>>
        /\ processedChunks = <<>>
        /\ delivered = <<>>

\* C8 witness: a chunk failed after another chunk's result had been stored.
PartialResultsDiscarded ==
    /\ ChunkFailed
    /\ \E k \in 1..Len(results) : results[k] # NoResult
    /\ pc = "failed"

\* C9 (as claimed): the run is not over while a worker still has a request in
\* flight or a chunk waiting in its cool-down.
RunEndsAfterAllRequests ==
    pc \in {"done", "failed"} => InFlight = {} /\ CoolingDown = {}

\* C10: at most concurrencyLimit, and at most N, requests are in flight; the
\* chunks not yet started are those from currentIndex on; and a worker whose
\* request returns while chunks remain takes chunk currentIndex at once and
\* does not end.
NotStarted(k) ==
    /\ issued[k + 1] = 0
    /\ ~\E w \in Workers : widx[w] = k /\ wpc[w] = "cooldown"
BoundedInFlight ==
    /\ Cardinality(InFlight) <= concurrencyLimit
    /\ Cardinality(InFlight) <= Len(chunks)
    /\ wpc # <<>> => \A k \in 0..(Len(chunks) - 1) : NotStarted(k) <=> k >= currentIndex
PullsNext(w) ==
    (/\ wpc[w] = "inflight"
     /\ results[widx[w] + 1] = NoResult
     /\ results'[widx[w] + 1] # NoResult
     /\ currentIndex < Len(chunks))
        => /\ widx'[w] = currentIndex
           /\ currentIndex' = currentIndex + 1
           /\ wpc'[w] \in {"inflight", "cooldown"}
BoundedPool == []BoundedInFlight /\ [][\A w \in Workers : PullsNext(w)]_vars

\* C10 witness: with two workers and three chunks, a worker has taken the
\* third chunk while the other worker's request is still in flight.
PoolFullAfterPull ==
    /\ concurrencyLimit = 2
    /\ Len(chunks) = 3
    /\ Cardinality(InFlight) = 2
    /\ \E w \in InFlight : widx[w] = 2

\* C11: no chunk's request is sent twice, two workers never hold the same
\* index, and when processChunksInParallel has returned (so no request
\* failed) the request of every index 0..N-1 was sent exactly once.
Claimed(w) == wpc[w] \in {"inflight", "cooldown"}
EachChunkIssuedOnce ==
    /\ Len(issued) = Len(chunks)
    /\ \A k \in 1..Len(issued) : issued[k] <= 1
    /\ \A w1 \in Workers, w2 \in Workers :
          (w1 # w2 /\ Claimed(w1) /\ Claimed(w2)) => widx[w1] # widx[w2]
    /\ \A w \in Workers : Claimed(w) => widx[w] < currentIndex
    /\ (Returned \/ (pc = "dispatch" /\ \A w \in Workers : wpc[w] = "done"))
          => \A k \in 1..Len(issued) : issued[k] = 1

\* C11 witness: two workers shared three chunks and the dispatch returned.
ThreeChunksTwoWorkersReturned ==
    /\ pc = "reduce"
    /\ concurrencyLimit = 2
    /\ issued = <<1, 1, 1>>

-----------------------------------------------------------------------------
\* Properties of the reducer (checked under Spec)

\* C12 (as claimed): when the sequence of processed chunks is empty the
\* reducer issues no group-combine call and no final-combine call, invokes no
\* operation and delivers no document.
EmptyReduceIssuesNoCall ==
    (Returned /\ processedChunks = <<>>)
        => /\ groupCalls = <<>>
           /\ finalCalls = <<>>
           /\ rpc = "idle"
           /\ delivered = <<>>

\* the estimated tokens of the processed chunks, and their greedy groups:
\* a group takes chunks while its sum stays <= the limit, and has at least
\* one chunk
Tokens(pcs) == [k \in 1..Len(pcs) |-> EstimateTokens(pcs[k].len)]
RECURSIVE GreedyGroups(_, _, _, _)
GreedyGroups(toks, k, cur, sum) ==
    IF k > Len(toks)
    THEN IF cur = <<>> THEN <<>> ELSE <<cur>>
    ELSE IF cur # <<>> /\ sum + toks[k] > GroupTokenLimit
         THEN <<cur>> \o GreedyGroups(toks, k + 1, <<k - 1>>, toks[k])
         ELSE GreedyGroups(toks, k + 1, Append(cur, k - 1), sum + toks[k])

\* C13 (as claimed): once the final-combine call is issued, the group-combine
\* calls issued are exactly the greedy groups of the processed chunks, one
\* call each, and there is exactly one final-combine call.
OneCallPerGreedyGroup ==
    pc \in {"finalCall", "done"}
        => /\ groupCalls = GreedyGroups(Tokens(processedChunks), 1, <<>>, 0)
           /\ Len(finalCalls) = 1

RECURSIVE Concat(_)
Concat(ss) == IF ss = <<>> THEN <<>> ELSE Head(ss) \o Concat(Tail(ss))
Upto(n) == [k \in 1..n |-> k - 1]
RECURSIVE GroupSum(_)
GroupSum(g) ==
    IF g = <<>> THEN 0
    ELSE EstimateTokens(processedChunks[Head(g) + 1].len) + GroupSum(Tail(g))

\* C14: the flushed groups, one after the other, are the chunk indexes
\* 0, 1, 2, ... with none left out or repeated; with the group being
\* filled they cover the chunks consumed so far; once the final-combine call
\* is issued they cover all chunks; and a flushed group's token sum is within
\* the limit unless the group is one chunk.
GroupsPartitionChunks ==
    /\ \E m \in 0..Len(processedChunks) : Concat(groupCalls) = Upto(m)
    /\ pc = "reduce" => Concat(groupCalls) \o currentGroup = Upto(i)
    /\ pc \in {"finalCall", "done"}
          => Concat(groupCalls) = Upto(Len(processedChunks))
    /\ \A g \in 1..Len(groupCalls) :
          GroupSum(groupCalls[g]) <= GroupTokenLimit \/ Len(groupCalls[g]) = 1

\* C14 witness: three chunks in three groups, the second one a single chunk
\* above the limit.
OversizeChunkAloneInGroup ==
    /\ pc = "finalCall"
    /\ groupCalls = <<<<0>>, <<1>>, <<2>>>>
    /\ GroupSum(groupCalls[2]) > GroupTokenLimit

\* C15: when the retryWithBackoff of a group-combine or final-combine call
\* has thrown, the next step ends the run with an error, issues no call and
\* delivers nothing; a run that has failed issues no further combine call,
\* invokes no further operation and never delivers a document.
CombineStates == {"groupCall", "finalGroupCall", "finalCall"}
NoCallNoDelivery ==
    /\ groupCalls' = groupCalls
    /\ finalCalls' = finalCalls
    /\ delivered' = delivered
    /\ rpc' = "idle"
FailedRunDeliversNothing ==
    pc = "failed" => delivered = <<>> /\ ~isLoading /\ error # NoError
CombineFailureAborts ==
    /\ []FailedRunDeliversNothing
    /\ [][/\ (pc \in CombineStates /\ rpc = "thrown")
                => (pc' = "failed" /\ NoCallNoDelivery)
          /\ pc = "failed" => (pc' = "failed" /\ NoCallNoDelivery)]_vars

\* C15 witness: the call of the first of two groups failed with a rate-limit
\* error: the run is over, the second group and the final call never issued.
FirstGroupCallFailed ==
    /\ pc = "failed"
    /\ Len(processedChunks) = 3
    /\ groupCalls = <<<<0, 1>>>>
    /\ finalCalls = <<>>
    /\ error = ClassifyError(Msg429)

\* C16 (as claimed): a combine call answered without content is never passed
\* over: the sections handed to the final-combine call are the outputs of
\* all the groups flushed, none missing, and a document is delivered only
\* from such a set.
NoGroupMissingFromFinal ==
    /\ \A f \in 1..Len(finalCalls) : finalCalls[f] = Upto(Len(groupCalls))
    /\ \A d \in 1..Len(delivered) : delivered[d] = Upto(Len(groupCalls))

\* C17: a combine call is in progress only inside the reducer and with no
\* chunk request left; a group-combine call is issued only when no combine
\* call is in progress, for the chunks that follow those of the earlier
\* groups; the final-combine call is issued only when the last group-combine
\* call has returned and every chunk is in a flushed group, in a step that
\* issues no group-combine call; and its sections are group outputs in
\* increasing group order.
Increasing(s) == \A a \in 1..Len(s), b \in 1..Len(s) : a < b => s[a] < s[b]
OneCombineCallAtATime ==
    /\ rpc # "idle" => (pc \in CombineStates /\ wpc = <<>>)
    /\ Len(finalCalls) <= 1
    /\ \A f \in 1..Len(finalCalls) :
          /\ Increasing(finalCalls[f])
          /\ \A k \in 1..Len(finalCalls[f]) : finalCalls[f][k] < Len(groupCalls)
IssuedInOrder ==
    /\ groupCalls' # groupCalls
          => /\ rpc = "idle"
             /\ finalCalls = <<>> /\ finalCalls' = <<>>
             /\ Len(groupCalls') = Len(groupCalls) + 1
             /\ \E m \in 0..Len(processedChunks) : Concat(groupCalls') = Upto(m)
    /\ finalCalls' # finalCalls
          => /\ rpc \in {"idle", "returned"}
             /\ groupCalls' = groupCalls
             /\ Concat(groupCalls) = Upto(Len(processedChunks))
             /\ finalCalls' = <<combinedChunks'>>
SequentialReduction == []OneCombineCallAtATime /\ [][IssuedInOrder]_vars

\* C17 witness: the final-combine call is in flight over the outputs of two
\* groups.
FinalCallOverTwoGroups ==
    /\ pc = "finalCall"
    /\ rpc = "call"
    /\ groupCalls = <<<<0, 1>>, <<2>>>>
    /\ finalCalls = <<<<0, 1>>>>

-----------------------------------------------------------------------------
\* Properties of retryWithBackoff (checked under SpecRetry)

RECURSIVE Pow2(_)
Pow2(n) == IF n = 0 THEN 1 ELSE 2 * Pow2(n - 1)

Ok == <<"ok">>
Invoked == Len(outcomes) + (IF rpc = "call" THEN 1 ELSE 0)
AllRateLimited == \A k \in 1..Len(outcomes) : IsRateLimit(outcomes[k])

\* C6: an invocation of the operation that fails with an error other than a
\* rate-limit error is the last one: retryWithBackoff throws that error, with
\* no backoff wait after it; when it is the first invocation the operation
\* was invoked exactly once and no backoff wait took place.
OtherErrorPropagates ==
    \A k \in 1..Len(outcomes) :
        (outcomes[k] # Ok /\ ~IsRateLimit(outcomes[k]))
            => /\ k = Len(outcomes)
               /\ rpc = "thrown"
               /\ rerr = outcomes[k]
               /\ Len(waits) = k - 1
               /\ retries = k - 1

\* C6 witness: the first invocation failed with a 401.
ThrownAtOnce ==
    /\ rpc = "thrown"
    /\ outcomes = <<Msg401>>
    /\ waits = <<>>
    /\ maxRetries = DefaultMaxRetries

\* C7: as long as every invocation failed with a rate-limit error, the
\* operation was invoked at most maxRetries times, the wait before the k-th
\* retry was initialDelay * 2^(k-1), and once an invocation has been made
\* retryWithBackoff ends only by throwing the rate-limit error of the
\* maxRetries-th invocation.
RateLimitExhausts ==
    AllRateLimited =>
        /\ Invoked <= maxRetries
        /\ Len(waits) <= Len(outcomes)
        /\ \A k \in 1..(Invoked - 1) :
              k <= Len(waits) /\ waits[k] = initialDelay * Pow2(k - 1)
        /\ (rpc \in {"returned", "thrown"} /\ Len(outcomes) >= 1)
              => /\ rpc = "thrown"
                 /\ IsRateLimit(rerr)
                 /\ Len(outcomes) = maxRetries

\* C7 witness: five rate-limit failures in a row, four waits, then the throw.
ThrownAfterFiveAttempts ==
    /\ rpc = "thrown"
    /\ rerr = Msg429
    /\ maxRetries = DefaultMaxRetries
    /\ initialDelay = DefaultInitialDelay
    /\ outcomes = <<Msg429, Msg429, Msg429, Msg429, Msg429>>
    /\ waits = <<5000, 10000, 20000, 40000>>

-----------------------------------------------------------------------------
\* Properties of the orchestrators' validation (checked under SpecAudio)

\* nothing downstream of the validation has run
NothingStarted ==
    /\ ~isLoading
    /\ audioChunks = <<>>
    /\ transcribeCalls = <<>>
    /\ transcribed = <<>>
    /\ issued = <<>>
    /\ groupCalls = <<>>
    /\ finalCalls = <<>>
    /\ rpc = "idle"
    /\ delivered = <<>>

\* C18: without a key neither pipeline ever sets isLoading, issues a call or
\* calls its result callback; after a drop with no file, or with a file whose
\* name does not end in .m4a (in any letter case), onDrop has returned and
\* nothing downstream has run.
RejectedRunStartsNothing ==
    /\ ~apiKey => (NothingStarted /\ apc \in {"idle", "rejected"}
                                  /\ pc \in {"idle", "rejected"})
    /\ (apc # "idle"
        /\ (file = NoFile \/ ~EndsWith(ToLowerCase(file.name), <<".", "m", "4", "a">>)))
          => apc = "rejected"
    /\ apc = "rejected" => NothingStarted

\* C18 witness: with a key entered, a non-empty file named a.m4a.txt was
\* dropped and onDrop has returned.
WrongTypeRejected ==
    /\ apiKey
    /\ apc = "rejected"
    /\ file.name = NameM4aTxt
    /\ file.size > 0
    /\ toasts # <<>>

\* C19 (as claimed; checked under Spec): a notes run on the empty text, which
\* splitTextIntoChunks turns into no chunk, issues no external call, delivers
\* no document and does not end well.
EmptyNotesRejected ==
    (pc \notin {"idle", "rejected"} /\ chunks = <<>>)
        => /\ groupCalls = <<>>
           /\ finalCalls = <<>>
           /\ delivered = <<>>
           /\ pc # "done"

-----------------------------------------------------------------------------
\* Properties of splitAudioFile (checked under SpecSplit)

\* C20: the number of chunks is the least n with n * chunkSize >= size, and
\* chunk idx, at position idx of the array, is the byte range from
\* max(0, idx * chunkSize - (idx > 0 ? overlapSize : 0)) to
\* min(size, (idx + 1) * chunkSize + (idx < n - 1 ? overlapSize : 0)).
SplitMatchesFormula ==
    apc = "split" =>
        LET n == Len(audioChunks)
        IN /\ n * chunkSize >= file.size
           /\ (n - 1) * chunkSize < file.size
           /\ \A idx \in 0..(n - 1) :
                 /\ audioChunks[idx + 1].start =
                       Max(0, idx * chunkSize - (IF idx > 0 THEN overlapSize ELSE 0))
                 /\ audioChunks[idx + 1].end =
                       Min(file.size, (idx + 1) * chunkSize
                                         + (IF idx < n - 1 THEN overlapSize ELSE 0))

\* C20 witness: 12 bytes in chunks of 4 with an overlap of 5: three chunks,
\* the overlaps cut at both ends of the file.
ThreeOverlappingChunks ==
    /\ apc = "split"
    /\ file.size = 12
    /\ chunkSize = 4
    /\ overlapSize = 5
    /\ audioChunks = <<[start |-> 0, end |-> 9], [start |-> 0, end |-> 12],
                       [start |-> 3, end |-> 12]>>

\* C21: every byte of the file lies in a chunk, and when there is a chunk the
\* first one starts at 0 and the last one ends at size.
Covers(c, b) == c.start <= b /\ b < c.end
SplitCoversFile ==
    apc = "split" =>
        /\ \A b \in 0..(file.size - 1) :
              \E k \in 1..Len(audioChunks) : Covers(audioChunks[k], b)
        /\ audioChunks # <<>> =>
              /\ audioChunks[1].start = 0
              /\ audioChunks[Len(audioChunks)].end = file.size

\* C21 witness: 11 bytes in chunks of 4 with an overlap of 1, the last chunk
\* is a partial one.
PartialLastChunk ==
    /\ apc = "split"
    /\ file.size = 11
    /\ chunkSize = 4
    /\ overlapSize = 1
    /\ audioChunks = <<[start |-> 0, end |-> 5], [start |-> 3, end |-> 9],
                       [start |-> 7, end |-> 11]>>

\* the bytes two chunks share
Shared(c, d) == Max(0, Min(c.end, d.end) - Max(c.start, d.start))

\* C22 (as claimed): two consecutive chunks never share more than overlapSize
\* bytes, and share exactly overlapSize bytes when neither the start of the
\* later one is cut at 0 nor the end of the earlier one at size.
ConsecutiveShareOverlap ==
    apc = "split" =>
        \A k \in 1..(Len(audioChunks) - 1) :
            /\ Shared(audioChunks[k], audioChunks[k + 1]) <= overlapSize
            /\ (k * chunkSize - overlapSize >= 0
                /\ k * chunkSize + overlapSize <= file.size)
                  => Shared(audioChunks[k], audioChunks[k + 1]) = overlapSize

\* C23 (as claimed): a file no larger than a chunk, the empty file included,
\* gives one chunk, the range from 0 to size.
SmallFileOneChunk ==
    (apc = "split" /\ file.size <= chunkSize)
        => audioChunks = <<[start |-> 0, end |-> file.size]>>

-----------------------------------------------------------------------------
\* Properties of splitTextIntoChunks (checked under SpecText)

\* the white-space-delimited words of a string
Words(s) == SelectSeq(Pieces(s, {k \in 1..Len(s) : s[k] \in Spaces}),
                      LAMBDA w : w # <<>>)

\* C24 (as claimed): every chunk is at most chunkSize long, unless it is one
\* single word longer than chunkSize.
ChunksWithinLimit ==
    tpc = "split" =>
        \A k \in 1..Len(textChunks) :
            \/ Len(textChunks[k]) <= textChunkSize
            \/ Len(Words(textChunks[k])) = 1

RECURSIVE WordsOfAll(_)
WordsOfAll(cs) == IF cs = <<>> THEN <<>> ELSE Words(Head(cs)) \o WordsOfAll(Tail(cs))

\* C25: the words of the chunks, read in order, are the words of the text:
\* none is lost, duplicated or reordered.
ChunksKeepWords ==
    tpc = "split" => WordsOfAll(textChunks) = Words(text)

\* a text of two sentences, the second split between its words
SentenceSplitBetweenWords ==
    /\ tpc = "split"
    /\ text = <<".", " ", "b", " ", "a">>
    /\ textChunkSize = 1
    /\ textChunks = <<<<".">>, <<"b">>, <<"a">>>>

-----------------------------------------------------------------------------
\* Properties of mergeTranscriptions (checked under SpecAudio)

\* "The patient should return for evaluation."
ExampleRemainder ==
    <<"T", "h", "e", " ", "p", "a", "t", "i", "e", "n", "t", " ", "s", "h",
      "o", "u", "l", "d", " ", "r", "e", "t", "u", "r", "n", " ", "f", "o",
      "r", " ", "e", "v", "a", "l", "u", "a", "t", "i", "o", "n", ".">>

\* C26 (as claimed): resolving "Follow up in two weeks. The patient should
\* return for evaluation." against "The patient reports mild pain. Follow up
\* in two weeks." yields exactly "The patient should return for evaluation.",
\* with no leftover of the duplicated sentence.
ExampleResolvedCleanly ==
    (apc = "done" /\ transcriptions = <<ExamplePrevious, ExampleCurrent>>)
        => resolved[2] = ExampleRemainder

\* the phrases made of the last count words of the last sentence of prevText,
\* for every count of at least three
SuffixPhrases(prevText) ==
    LET words == Words(LastSentence(prevText))
    IN {Join(SubSeq(words, Len(words) - count + 1, Len(words)), <<" ">>) :
            count \in 3..Len(words)}
Occurs(phrase, t) == Includes(ToLowerCase(t), ToLowerCase(phrase))

\* C27: when no phrase of the last three or more words of the predecessor's
\* last sentence occurs in a result (there is no last sentence, it has fewer
\* than three words, or none of the phrases is found), the resolver returns
\* the result trimmed and nothing else.
NoPhraseNoTrimming ==
    apc = "done" =>
        \A k \in 2..Len(transcriptions) :
            (\A phrase \in SuffixPhrases(transcriptions[k - 1]) :
                 ~Occurs(phrase, transcriptions[k]))
                => resolved[k] = Trim(transcriptions[k])

\* the two-word last sentence "b c" opens the next result, which is kept whole
TwoWordSentenceRepeated ==
    /\ apc = "done"
    /\ transcriptions = <<TwoWordEnd, FourWordEnd>>
    /\ resolved = <<TwoWordEnd, FourWordEnd>>

\* the phrases of SuffixPhrases that occur in t, the longest of them, and the
\* first position (from 0) at which a phrase occurs
Matching(prevText, t) == {phrase \in SuffixPhrases(prevText) : Occurs(phrase, t)}
Longest(phrases) == CHOOSE p \in phrases : \A q \in phrases : Len(p) >= Len(q)
FirstAt(phrase, t) ==
    CHOOSE k \in 0..Len(t) :
        /\ SubSeq(ToLowerCase(t), k + 1, k + Len(phrase)) = ToLowerCase(phrase)
        /\ \A j \in 0..(k - 1) :
              SubSeq(ToLowerCase(t), j + 1, j + Len(phrase)) # ToLowerCase(phrase)

\* C28: when some phrase matches, the resolver looks at the first position of
\* the longest one: in the first half of the trimmed result (index <
\* length / 2) it returns what follows the phrase, trimmed; otherwise it
\* returns the trimmed result unchanged.
TrimsOnlyInFirstHalf ==
    apc = "done" =>
        \A k \in 2..Len(transcriptions) :
            LET currentText == Trim(transcriptions[k])
                found == Matching(transcriptions[k - 1], currentText)
                best == Longest(found)
                at == FirstAt(best, currentText)
            IN found # {} =>
                  resolved[k] =
                      IF 2 * at < Len(currentText)
                      THEN Trim(SubSeq(currentText, at + Len(best) + 1,
                                       Len(currentText)))
                      ELSE currentText

\* "a b c" and "x a b c" both match "a b c x a b c e": the cut is made after
\* the longer one, found at index 6 of 15
CutAfterLongestPhrase ==
    /\ apc = "done"
    /\ transcriptions = <<FourWordEnd, TwoRepeats>>
    /\ resolved[2] = <<"e">>

\* C29: every result after the first is resolved against the text its
\* predecessor had when the transcription call returned it, whatever the
\* predecessor was itself trimmed to.
ResolvedAgainstOriginal ==
    apc = "done" =>
        \A k \in 2..Len(transcriptions) :
            resolved[k] = ResolveOverlap(transcriptions[k - 1], transcriptions[k])

\* the second result is trimmed to nothing, and the third is still cut after
\* the second's original text "a b c"
TrimmedAwayPredecessor ==
    /\ apc = "done"
    /\ transcriptions = <<ThreeWords, SameThreeWords, TwoRepeats>>
    /\ resolved = <<ThreeWords, <<>>, <<"x", " ", "a", " ", "b", " ", "c", " ", "e">>>>

\* the segments that are not empty, in order, with a blank line between two
\* of them
RECURSIVE Glued(_)
Glued(segments) ==
    IF segments = <<>> THEN <<>>
    ELSE LET before == Glued(SubSeq(segments, 1, Len(segments) - 1))
             last == segments[Len(segments)]
         IN IF last = <<>> THEN before
            ELSE IF before = <<>> THEN last
            ELSE before \o <<"\n", "\n">> \o last

\* C30: the text handed to onTranscription is the first result trimmed
\* followed by the resolved later results, the empty ones left out, in chunk
\* order, with a blank line between two of them; for no result at all it is
\* the empty string.
MergedInOrder ==
    apc = "done" =>
        /\ Len(resolved) = Len(transcriptions)
        /\ transcriptions # <<>> => resolved[1] = Trim(transcriptions[1])
        /\ transcribed = <<Glued(resolved)>>
        /\ transcriptions = <<>> => transcribed = << <<>> >>

\* the first result loses its surrounding white space, the empty second one
\* is dropped, the third follows after a blank line
EmptySegmentDropped ==
    /\ apc = "done"
    /\ transcriptions = <<UpperCaseStart, Silence, ThreeWords>>
    /\ transcribed = <<<<"A", " ", "B", " ", "C", " ", "d", " ", "e", " ", "f", " ", "g",
                         "\n", "\n", "a", " ", "b", " ", "c", ".">>>>

-----------------------------------------------------------------------------
\* Properties of the audio run (checked under SpecAudio)

\* the run failed and its toast reports a rate-limit error
RateLimitReported ==
    /\ apc = "failed"
    /\ toasts # <<>>
    /\ toasts[Len(toasts)].description = "Rate limit exceeded. Please try again later."

\* the requests sent for chunk c
Attempts(c) == Cardinality({k \in 1..Len(transcribeCalls) : transcribeCalls[k] = c})

\* C31 (as claimed): a transcription request that fails with a rate-limit
\* error is retried: the run fails with that error only after the request
\* of the failing chunk was sent more than once.
RateLimitedTranscribeRetried ==
    RateLimitReported => Attempts(Len(transcriptions)) > 1

-----------------------------------------------------------------------------
\* Properties of the progress bar of a notes run (checked under SpecReduce)

\* C32 (as claimed): every value handed to setProgress is between 0 and 100
\* percent.
ProgressWithinRange ==
    /\ notesProgress[2] > 0
    /\ 0 <= notesProgress[1]
    /\ notesProgress[1] <= 100 * notesProgress[2]

-----------------------------------------------------------------------------
\* The scheduler with concurrencyLimit = 1 against the sequential chunk loop
\* of the earlier processNotes (part_001 95-151), checked under Spec

\* The sequential loop on the chunks cs while every request succeeds, with
\* window limit `limit`: the counter when pass k (from 0) tests it (104), and
\* the counter when pass k sends its request, after the cool-down if there
\* is one (104-109); the counter grows by the estimate after the answer (148).
RECURSIVE SeqCounterAtTest(_, _, _)
RECURSIVE SeqCounterAtRequest(_, _, _)
SeqCoolsDown(cs, k, limit) ==
    SeqCounterAtTest(cs, k, limit) + EstimateTokens(cs[k + 1]) > limit
SeqCounterAtTest(cs, k, limit) ==
    IF k = 0 THEN 0
    ELSE SeqCounterAtRequest(cs, k - 1, limit) + EstimateTokens(cs[k])
SeqCounterAtRequest(cs, k, limit) ==
    IF SeqCoolsDown(cs, k, limit) THEN 0 ELSE SeqCounterAtTest(cs, k, limit)

WindowLimit == TOKEN_LIMIT_PER_MINUTE - TOKEN_BUFFER

\* with one worker, the chunk in hand is the last one taken, the chunks
\* before it were sent once and answered in index order, and the counter is
\* the one of the sequential loop at the same point
OneWorkerLikeLoop ==
    (concurrencyLimit = 1 /\ pc = "dispatch") =>
        /\ Len(wpc) <= 1
        /\ \A w \in 1..Len(wpc) :
              wpc[w] \in {"inflight", "cooldown"} =>
                 /\ currentIndex = widx[w] + 1
                 /\ completionOrder = Upto(widx[w])
                 /\ issued = [k \in 1..Len(chunks) |->
                                IF k <= widx[w] \/ (k = widx[w] + 1 /\ wpc[w] = "inflight")
                                THEN 1 ELSE 0]
                 /\ wpc[w] = "cooldown" =>
                       currentMinuteTokens = SeqCounterAtTest(chunks, widx[w], WindowLimit)
                 /\ wpc[w] = "inflight" =>
                       currentMinuteTokens = SeqCounterAtRequest(chunks, widx[w], WindowLimit)

\* with one worker, a chunk is taken into a cool-down exactly when the
\* sequential loop cools down before it
CoolsDownLikeLoop ==
    (concurrencyLimit' = 1 /\ pc' = "dispatch" /\ currentIndex' = currentIndex + 1)
        => ((wpc'[1] = "cooldown") <=> SeqCoolsDown(chunks', currentIndex, WindowLimit))

-----------------------------------------------------------------------------
\* Properties of the isLoading flag of App (checked under SpecApp)

NotesRunning ==
    pc \in {"dispatch", "reduce", "groupCall", "groupWait", "finalGroupCall", "finalCall"}
AudioRunning == apc \in {"split", "transcribing"}

\* C34 (as claimed): isLoading is true whenever a notes run or an audio run
\* is in progress.
LoadingWhileAnyRunRuns == (NotesRunning \/ AudioRunning) => isLoading

-----------------------------------------------------------------------------
\* Termination of a notes run (checked under SpecLive)

Started == pc \notin {"idle", "rejected"}
Ended == pc \in {"done", "failed"}

\* the run ended with a document: onProcessedNotes was called once, no
\* error is set, isLoading is false
EndedWithDocument ==
    pc = "done" => (Len(delivered) = 1 /\ error = NoError /\ ~isLoading)

\* the run ended with an error: onProcessedNotes was not called, an error is
\* set, isLoading is false
EndedWithError ==
    pc = "failed" => (delivered = <<>> /\ error # NoError /\ ~isLoading)

\* nothing is delivered and isLoading is true while the run is in progress,
\* and an ended run stays as it ended
OutcomeKept ==
    /\ (Started /\ ~Ended) => (delivered = <<>> /\ isLoading)
    /\ Ended => (pc' = pc /\ delivered' = delivered /\ isLoading' = isLoading
                 /\ error' = error)

\* C35: a started notes run ends, when every external call returns or
\* fails, in exactly one of two outcomes, with isLoading false: a document
\* delivered once and no error, or an error and nothing delivered.
RunEndsInOneOutcome ==
    /\ [](EndedWithDocument /\ EndedWithError)
    /\ [][OutcomeKept]_vars
    /\ (Started ~> Ended)

\* a run of two chunks ended with a document, the progress bar at 100
RunEndedAfterRateLimit ==
    /\ pc = "done"
    /\ Len(chunks) = 2
    /\ Len(delivered) = 1
    /\ ~isLoading
    /\ notesProgress = <<100, 1>>

-----------------------------------------------------------------------------
\* Further properties of the reducer (checked under Spec)

\* C36 (as claimed): every group-combine call is issued for a group of at
\* least one processed chunk.
NoEmptyGroupCall ==
    \A k \in 1..Len(groupCalls) : groupCalls[k] # <<>>

-----------------------------------------------------------------------------
\* Further properties of splitTextIntoChunks (checked under SpecText)

\* C37 (as claimed): every chunk returned holds a character that is not
\* white space.
NoEmptyChunk ==
    tpc = "split" =>
        \A k \in 1..Len(textChunks) :
            \E j \in 1..Len(textChunks[k]) : textChunks[k][j] \notin Spaces

-----------------------------------------------------------------------------
\* Further properties of mergeTranscriptions (checked under SpecAudio)

\* what follows the first j characters of t, trimmed
TrimmedSuffix(t, j) == Trim(SubSeq(t, j + 1, Len(t)))

\* C38: the segment of every result after the first is what follows some
\* leading part of the trimmed result, trimmed: nothing is added, reordered
\* or taken from its middle or end.
ResolvedIsSuffix ==
    apc = "done" =>
        \A k \in 2..Len(transcriptions) :
            LET currentText == Trim(transcriptions[k])
            IN \E j \in 0..Len(currentText) :
                  resolved[k] = TrimmedSuffix(currentText, j)

\* the example's second result loses its 22 leading characters and nothing
\* else
ExampleCutToSuffix ==
    /\ apc = "done"
    /\ transcriptions = <<ExamplePrevious, ExampleCurrent>>
    /\ resolved[2] = SubSeq(ExampleCurrent, 23, Len(ExampleCurrent))

-----------------------------------------------------------------------------
\* Properties of the transcription loop (checked under SpecAudio)

\* the requests sent and not yet answered
Unanswered == Len(transcribeCalls) - Len(transcriptions)

\* the requests went out in chunk index order, each chunk once, at most one
\* unanswered; a finished run merged one result per chunk; a failed run
\* delivered nothing and left the chunks after the failing one unsent
OneAtATime ==
    /\ \A k \in 1..Len(transcribeCalls) : transcribeCalls[k] = k - 1
    /\ Unanswered \in {0, 1}
    /\ apc = "transcribing" => Unanswered = 1
    /\ apc = "done" =>
        /\ Unanswered = 0
        /\ Len(transcriptions) = Len(audioChunks)
        /\ Len(resolved) = Len(audioChunks)
        /\ transcribed = <<MergeTranscriptions(transcriptions)>>
    /\ apc = "failed" =>
        /\ Unanswered = 1
        /\ transcribed = <<>>
        /\ Len(transcribeCalls) <= Len(audioChunks)

\* a request goes out only once every earlier one was answered, and none
\* after a failure
SubmittedAfterReturn ==
    /\ transcribeCalls' # transcribeCalls =>
        /\ Len(transcriptions') = Len(transcribeCalls)
        /\ apc' = "transcribing"
    /\ apc = "failed" =>
        /\ transcribeCalls' = transcribeCalls
        /\ transcribed' = transcribed

\* C39: the audio run transcribes one chunk at a time in index order, merges
\* one result per chunk, and stops at the first failing chunk without
\* delivering a transcription.
TranscribesSequentially == []OneAtATime /\ [][SubmittedAfterReturn]_vars

\* the second of three chunks failed: the third was never sent
FailedAtSecondOfThree ==
    /\ apc = "failed"
    /\ Len(audioChunks) = 3
    /\ transcribeCalls = <<0, 1>>
    /\ Len(transcriptions) = 1
    /\ transcribed = <<>>

====
